---- MODULE Spec2Model ----
(***************************************************************************)
(* A model of the benchmark harness utilities:                             *)
(*   torchbenchmark/util/experiment/metrics.py  (measurement flow)         *)
(*   scripts/userbenchmark/upload_s3_csv.py     (upload flow)              *)
(*   userbenchmark/torchao/upload.py            (CSV post-processing)      *)
(* Every function is a frame (a record with a program position "pc") and   *)
(* one action per step of its body.  A callee's frame is filled by the     *)
(* caller's call action and emptied when the caller collects the result.   *)
(***************************************************************************)
EXTENDS Integers, Sequences, FiniteSets, TLC

VARIABLES
    durs,       \* the durations (ns) one callback invocation may take in this run
    events,     \* log of what the measurement code did to its collaborators
    monitor,    \* the background memory monitor: "none", "running", "stopped"
    lat,        \* frame of get_latencies
    mem,        \* frame of get_peak_memory
    gmt,        \* frame of get_model_test_metrics
    gma,        \* frame of get_model_accuracy
    rc,         \* frame of run_config
    heap,       \* Python objects that can be aliased: configs and lists
    loads,      \* log of model instantiations (the config value each was given)
    up,         \* frame of the upload CLI (__main__ of upload_s3_csv.py)
    s3,         \* log of S3Client.upload_file calls
    pcp,        \* frame of post_ci_process
    fs,         \* the CSV files on disk, by path
    ms          \* frame of a direct call of _get_model_set

vars == <<durs, events, monitor, lat, mem, gmt, gma, rc, heap, loads,
          up, s3, pcp, fs, ms>>

measureVars == <<durs, events, monitor, lat, mem, gmt, gma, rc, heap, loads>>
uploadVars  == <<up, s3>>
csvVars     == <<pcp, fs, ms>>

(***************************************************************************)
(* Module constants of metrics.py                                          *)
(***************************************************************************)
WARMUP_ROUNDS == 10
BENCHMARK_ITERS == 15
MEMPROF_ITER == 2
NANOSECONDS_PER_MILLISECONDS == 1000000

(***************************************************************************)
(* Bounds of the model                                                     *)
(***************************************************************************)
MaxWarmup == 2      \* largest nwarmup a caller passes explicitly
MaxIter == 2        \* largest num_iter a caller passes explicitly
MaxRequested == 2   \* largest number of entries of a requested-metrics list
MaxFiles == 4       \* largest number of entries of the upload directory
MaxPaths == 2       \* largest number of paths given to post_ci_process
MaxRows == 2        \* largest number of data rows of a CSV file
MaxArgs == 2        \* largest number of extra_args of a config
MaxFrags == 3       \* largest number of name fragments in a filename

None == "None"

\* Python's range(n) as the number of iterations a for loop makes
Range(n) == IF n > 0 THEN n ELSE 0

\* x in list
In(x, list) == \E k \in 1..Len(list) : list[k] = x

\* Floats are kept exact, as a fraction <<numerator, denominator>>.
FloatDiv(a, b) == <<a[1] * b[2], a[2] * b[1]>>
IsZero(a) == a[1] = 0

(***************************************************************************)
(* The callback (model.invoke): one invocation either returns after some   *)
(* duration in nanoseconds or raises.                                      *)
(***************************************************************************)
Threshold == 15 * NANOSECONDS_PER_MILLISECONDS
Durations == {0, Threshold - 1, Threshold}
Returns(dt) == [raised |-> FALSE, dt |-> dt]
Raises == [raised |-> TRUE, dt |-> 0]
Outcomes == {Returns(dt) : dt \in durs} \cup {Raises}
\* an invocation nobody times: its duration is never read
UntimedOutcomes == {Returns(0), Raises}

Ev(name, dt) == [ev |-> name, dt |-> dt]
Sync == Ev("synchronize", 0)

\* the events of one bracketed invocation: synchronize before and after on
\* cuda, and nothing after the invocation when it raises
Bracketed(device, o) ==
    IF device = "cuda"
    THEN IF o.raised THEN <<Sync, Ev("raise", 0)>>
                     ELSE <<Sync, Ev("func", o.dt), Sync>>
    ELSE IF o.raised THEN <<Ev("raise", 0)>>
                     ELSE <<Ev("func", o.dt)>>

(***************************************************************************)
(* get_latencies                                                           *)
(***************************************************************************)
IdleFrame == [pc |-> "idle"]

LatencyMs(dt) == <<dt, NANOSECONDS_PER_MILLISECONDS>>

LatFrame(device, nwarmup, num_iter) ==
    [pc |-> "warmup", device |-> device, nwarmup |-> nwarmup,
     num_iter |-> num_iter, i |-> 0, result_summary |-> <<>>]

\* for _i in range(nwarmup): func()
LatWarmup ==
    /\ lat.pc = "warmup"
    /\ lat.i < Range(lat.nwarmup)
    /\ \E o \in UntimedOutcomes :
         /\ events' = IF o.raised THEN Append(events, Ev("raise", 0))
                                  ELSE Append(events, Ev("func", o.dt))
         /\ lat' = IF o.raised THEN [lat EXCEPT !.pc = "raised"]
                               ELSE [lat EXCEPT !.i = @ + 1]
    /\ UNCHANGED <<durs, monitor, mem, gmt, gma, rc, heap, loads>>
    /\ UNCHANGED <<uploadVars, csvVars>>

\* the warm-up loop is exhausted: result_summary = []
LatWarmupDone ==
    /\ lat.pc = "warmup"
    /\ lat.i >= Range(lat.nwarmup)
    /\ lat' = [lat EXCEPT !.pc = "loop", !.i = 0, !.result_summary = <<>>]
    /\ UNCHANGED <<durs, events, monitor, mem, gmt, gma, rc, heap, loads>>
    /\ UNCHANGED <<uploadVars, csvVars>>

\* LatIter with t0 read after the invocation instead of before it
LatIterTimerAfterCall ==
    /\ lat.pc = "loop"
    /\ lat.i < Range(lat.num_iter)
    /\ \E o \in Outcomes :
         /\ events' = events \o Bracketed(lat.device, o)
         /\ lat' = IF o.raised
                   THEN [lat EXCEPT !.pc = "raised"]
                   ELSE [lat EXCEPT !.i = @ + 1,
                                    !.result_summary = Append(@, LatencyMs(0))]
    /\ UNCHANGED <<durs, monitor, mem, gmt, gma, rc, heap, loads>>
    /\ UNCHANGED <<uploadVars, csvVars>>

\* one iteration of the timed loop
LatIter ==
    /\ lat.pc = "loop"
    /\ lat.i < Range(lat.num_iter)
    /\ \E o \in Outcomes :
         /\ events' = events \o Bracketed(lat.device, o)
         /\ lat' = IF o.raised
                   THEN [lat EXCEPT !.pc = "raised"]
                   ELSE [lat EXCEPT !.i = @ + 1,
                                    !.result_summary =
                                        Append(@, LatencyMs(o.dt))]
    /\ UNCHANGED <<durs, monitor, mem, gmt, gma, rc, heap, loads>>
    /\ UNCHANGED <<uploadVars, csvVars>>

\* return result_summary
LatReturn ==
    /\ lat.pc = "loop"
    /\ lat.i >= Range(lat.num_iter)
    /\ lat' = [lat EXCEPT !.pc = "return"]
    /\ UNCHANGED <<durs, events, monitor, mem, gmt, gma, rc, heap, loads>>
    /\ UNCHANGED <<uploadVars, csvVars>>

LatNext == LatWarmup \/ LatWarmupDone \/ LatIter \/ LatReturn

(***************************************************************************)
(* ModelAnalyzer (torchbenchmark/_components/model_analyzer): the values   *)
(* its calculate_* methods hand back after aggregate()                     *)
(***************************************************************************)
calculate_gpu_peak_mem == [device_id |-> "gpu0", peak |-> "gpu_peak_mb"]
calculate_cpu_peak_mem == "cpu_peak_mb"

(***************************************************************************)
(* get_peak_memory                                                         *)
(***************************************************************************)
MemoryMetrics == {"cpu_peak_mem", "gpu_peak_mem"}

\* [_ for _ in metrics_needed if _ in ["cpu_peak_mem", "gpu_peak_mem"]]
NewMetricsNeeded(metrics_needed) ==
    SelectSeq(metrics_needed, LAMBDA m : m \in MemoryMetrics)

MemFrame(device, num_iter, export_metrics_file, metrics_needed) ==
    [pc |-> "start", device |-> device, num_iter |-> num_iter,
     export_metrics_file |-> export_metrics_file,
     metrics_needed |-> metrics_needed, new_metrics_needed |-> <<>>,
     continue_num_iter |-> 0, i |-> 0,
     cpu_peak_mem |-> None, device_id |-> None, gpu_peak_mem |-> None,
     error |-> None]

\* filter the metrics, reject an empty request, build the analyzer
MemStart ==
    /\ mem.pc = "start"
    /\ LET needed == NewMetricsNeeded(mem.metrics_needed) IN
         mem' = IF needed = <<>>
                THEN [mem EXCEPT !.pc = "raised", !.error = "ValueError"]
                ELSE [mem EXCEPT !.pc = "probe",
                                 !.new_metrics_needed = needed,
                                 !.continue_num_iter = BENCHMARK_ITERS - mem.num_iter]
    /\ UNCHANGED <<durs, events, monitor, lat, gmt, gma, rc, heap, loads>>
    /\ UNCHANGED <<uploadVars, csvVars>>

\* ProbeIters with the comparison made inclusive
ProbeItersInclusive(dt) ==
    IF dt <= 15 * NANOSECONDS_PER_MILLISECONDS THEN BENCHMARK_ITERS
                                               ELSE MEMPROF_ITER

\* the number of measured iterations the probe duration (t1 - t0) selects
ProbeIters(dt) ==
    IF dt < 15 * NANOSECONDS_PER_MILLISECONDS THEN BENCHMARK_ITERS
                                              ELSE MEMPROF_ITER

\* the timed probe, the choice of num_iter, start_monitor()
MemProbe ==
    /\ mem.pc = "probe"
    /\ \E o \in Outcomes :
         IF o.raised
         THEN /\ events' = events \o Bracketed(mem.device, o)
              /\ mem' = [mem EXCEPT !.pc = "raised", !.error = "callback"]
              /\ UNCHANGED monitor
         ELSE /\ events' = (events \o Bracketed(mem.device, o))
                              \o <<Ev("start_monitor", 0)>>
              /\ mem' = [mem EXCEPT !.pc = "loop", !.i = 0,
                                    !.num_iter = ProbeIters(o.dt)]
              /\ monitor' = "running"
    /\ UNCHANGED <<durs, lat, gmt, gma, rc, heap, loads>>
    /\ UNCHANGED <<uploadVars, csvVars>>

\* one measured iteration: work_func()
MemIter ==
    /\ mem.pc = "loop"
    /\ mem.i < Range(mem.num_iter)
    /\ \E o \in UntimedOutcomes :
         /\ events' = events \o Bracketed(mem.device, o)
         /\ mem' = IF o.raised
                   THEN [mem EXCEPT !.pc = "raised", !.error = "callback"]
                   ELSE [mem EXCEPT !.i = @ + 1]
    /\ UNCHANGED <<durs, monitor, lat, gmt, gma, rc, heap, loads>>
    /\ UNCHANGED <<uploadVars, csvVars>>

\* PeakResult computing both peaks whatever was requested
PeakResultBoth(metrics_needed) ==
    [device_id |-> calculate_gpu_peak_mem.device_id,
     gpu_peak_mem |-> calculate_gpu_peak_mem.peak,
     cpu_peak_mem |-> calculate_cpu_peak_mem]

\* device_id, gpu_peak_mem, cpu_peak_mem: None unless the metric is requested
PeakResult(metrics_needed) ==
    LET gpu == In("gpu_peak_mem", metrics_needed)
        cpu == In("cpu_peak_mem", metrics_needed)
    IN [device_id |-> IF gpu THEN calculate_gpu_peak_mem.device_id ELSE None,
        gpu_peak_mem |-> IF gpu THEN calculate_gpu_peak_mem.peak ELSE None,
        cpu_peak_mem |-> IF cpu THEN calculate_cpu_peak_mem ELSE None]

\* stop_monitor(), aggregate(), the requested peaks, the optional export
MemFinish ==
    /\ mem.pc = "loop"
    /\ mem.i >= Range(mem.num_iter)
    /\ monitor' = "stopped"
    /\ events' = (events \o <<Ev("stop_monitor", 0), Ev("aggregate", 0)>>)
                    \o (IF mem.export_metrics_file
                        THEN <<Ev("export_all_records_to_csv", 0)>> ELSE <<>>)
    /\ LET r == PeakResult(mem.metrics_needed) IN
         mem' = [mem EXCEPT !.pc = "return",
                            !.device_id = r.device_id,
                            !.gpu_peak_mem = r.gpu_peak_mem,
                            !.cpu_peak_mem = r.cpu_peak_mem]
    /\ UNCHANGED <<durs, lat, gmt, gma, rc, heap, loads>>
    /\ UNCHANGED <<uploadVars, csvVars>>

MemNext == MemStart \/ MemProbe \/ MemIter \/ MemFinish

(***************************************************************************)
(* get_model_flops and get_model_test_metrics                              *)
(***************************************************************************)
EmptyMetrics ==
    [latencies |-> <<>>, throughputs |-> <<>>, accuracy |-> None,
     cpu_peak_mem |-> None, gpu_peak_mem |-> None, ttfb |-> None,
     pt2_compilation_time |-> None, pt2_graph_breaks |-> None,
     model_flops |-> None, error_msg |-> None]

\* a model handle: an in-process BenchmarkModel, a ModelTask living in a
\* worker process, or an object of another type
Handle(kind, device, batch_size) ==
    [kind |-> kind, device |-> device, batch_size |-> batch_size,
     pt2_compilation_time |-> "compile_ms", pt2_graph_breaks |-> "breaks",
     ttfb |-> "ttfb_ms", flop_counts |-> "total_flops"]

IsModel(model) == model.kind \in {"BenchmarkModel", "ModelTask"}

GmtFrame(model, required_metrics, export_metrics_file, nwarmup, num_iter) ==
    [pc |-> "start", model |-> model, required_metrics |-> required_metrics,
     export_metrics_file |-> export_metrics_file,
     nwarmup |-> nwarmup, num_iter |-> num_iter,
     metrics |-> EmptyMetrics, model_pid |-> None, device |-> None,
     error |-> None]

\* build the record, check the handle's type, resolve the pid and the device
GmtStart ==
    /\ gmt.pc = "start"
    /\ gmt' = IF ~IsModel(gmt.model)
              THEN [gmt EXCEPT !.pc = "raised", !.error = "ValueError",
                               !.metrics = EmptyMetrics]
              ELSE [gmt EXCEPT !.pc = "latencies",
                               !.metrics = EmptyMetrics,
                               !.model_pid = IF gmt.model.kind = "BenchmarkModel"
                                             THEN "getpid" ELSE "proc_pid",
                               !.device = gmt.model.device]
    /\ UNCHANGED <<durs, events, monitor, lat, mem, gma, rc, heap, loads>>
    /\ UNCHANGED <<uploadVars, csvVars>>

\* if "latencies" in required_metrics or "throughputs" in required_metrics:
\* call get_latencies
GmtLatencies ==
    /\ gmt.pc = "latencies"
    /\ IF In("latencies", gmt.required_metrics)
            \/ In("throughputs", gmt.required_metrics)
       THEN /\ lat' = LatFrame(gmt.device, gmt.nwarmup, gmt.num_iter)
            /\ gmt' = [gmt EXCEPT !.pc = "latencies_wait"]
       ELSE /\ gmt' = [gmt EXCEPT !.pc = "peak_mem"]
            /\ UNCHANGED lat
    /\ UNCHANGED <<durs, events, monitor, mem, gma, rc, heap, loads>>
    /\ UNCHANGED <<uploadVars, csvVars>>

\* metrics.latencies = <what get_latencies returned>, or its error propagates
GmtLatenciesDone ==
    /\ gmt.pc = "latencies_wait"
    /\ lat.pc \in {"return", "raised"}
    /\ gmt' = IF lat.pc = "raised"
              THEN [gmt EXCEPT !.pc = "raised", !.error = "callback"]
              ELSE [gmt EXCEPT !.pc = "peak_mem",
                               !.metrics.latencies = lat.result_summary]
    /\ lat' = IdleFrame
    /\ UNCHANGED <<durs, events, monitor, mem, gma, rc, heap, loads>>
    /\ UNCHANGED <<uploadVars, csvVars>>

\* if "cpu_peak_mem" in required_metrics or "gpu_peak_mem" in required_metrics:
\* call get_peak_memory with metrics_needed=required_metrics (num_iter is
\* left at its default)
GmtPeakMem ==
    /\ gmt.pc = "peak_mem"
    /\ IF In("cpu_peak_mem", gmt.required_metrics)
            \/ In("gpu_peak_mem", gmt.required_metrics)
       THEN /\ mem' = MemFrame(gmt.device, MEMPROF_ITER,
                               gmt.export_metrics_file, gmt.required_metrics)
            /\ gmt' = [gmt EXCEPT !.pc = "peak_mem_wait"]
       ELSE /\ gmt' = [gmt EXCEPT !.pc = "derived"]
            /\ UNCHANGED mem
    /\ UNCHANGED <<durs, events, monitor, lat, gma, rc, heap, loads>>
    /\ UNCHANGED <<uploadVars, csvVars>>

\* metrics.cpu_peak_mem, _device_id, metrics.gpu_peak_mem = <the result>
GmtPeakMemDone ==
    /\ gmt.pc = "peak_mem_wait"
    /\ mem.pc \in {"return", "raised"}
    /\ gmt' = IF mem.pc = "raised"
              THEN [gmt EXCEPT !.pc = "raised", !.error = mem.error]
              ELSE [gmt EXCEPT !.pc = "derived",
                               !.metrics.cpu_peak_mem = mem.cpu_peak_mem,
                               !.metrics.gpu_peak_mem = mem.gpu_peak_mem]
    /\ mem' = IdleFrame
    /\ UNCHANGED <<durs, events, monitor, lat, gma, rc, heap, loads>>
    /\ UNCHANGED <<uploadVars, csvVars>>

\* Throughputs with the factor 1000 (milliseconds to seconds) forgotten
ThroughputsPerMs(batch_size, latencies) ==
    [i \in 1..Len(latencies) |-> FloatDiv(<<batch_size, 1>>, latencies[i])]

\* [model.batch_size * 1000 / latency for latency in metrics.latencies]
Throughputs(batch_size, latencies) ==
    [i \in 1..Len(latencies) |->
        FloatDiv(<<batch_size * 1000, 1>>, latencies[i])]

\* the division raises ZeroDivisionError on a latency of 0.0
DivisionFails(latencies) == \E i \in 1..Len(latencies) : IsZero(latencies[i])

Requested(name, value) ==
    IF In(name, gmt.required_metrics) THEN value ELSE None

\* throughputs, pt2_compilation_time, pt2_graph_breaks
GmtDerived ==
    /\ gmt.pc = "derived"
    /\ gmt' =
         IF In("throughputs", gmt.required_metrics)
              /\ DivisionFails(gmt.metrics.latencies)
         THEN [gmt EXCEPT !.pc = "raised", !.error = "ZeroDivisionError"]
         ELSE [gmt EXCEPT
                 !.pc = "model_flops",
                 !.metrics.throughputs =
                     IF In("throughputs", gmt.required_metrics)
                     THEN Throughputs(gmt.model.batch_size,
                                      gmt.metrics.latencies)
                     ELSE @,
                 !.metrics.pt2_compilation_time =
                     Requested("pt2_compilation_time",
                               gmt.model.pt2_compilation_time),
                 !.metrics.pt2_graph_breaks =
                     Requested("pt2_graph_breaks", gmt.model.pt2_graph_breaks)]
    /\ UNCHANGED <<durs, events, monitor, lat, mem, gma, rc, heap, loads>>
    /\ UNCHANGED <<uploadVars, csvVars>>

\* model_flops (get_model_flops: one bracketed invocation inside the flop
\* counter, then the sum of the counts), ttfb, return metrics
GmtModelFlops ==
    /\ gmt.pc = "model_flops"
    /\ IF In("model_flops", gmt.required_metrics)
       THEN \E o \in UntimedOutcomes :
              /\ events' = events \o Bracketed(gmt.model.device, o)
              /\ gmt' = IF o.raised
                        THEN [gmt EXCEPT !.pc = "raised", !.error = "callback"]
                        ELSE [gmt EXCEPT
                                !.pc = "return",
                                !.metrics.model_flops = gmt.model.flop_counts,
                                !.metrics.ttfb =
                                    Requested("ttfb", gmt.model.ttfb)]
       ELSE /\ gmt' = [gmt EXCEPT !.pc = "return",
                                  !.metrics.ttfb =
                                      Requested("ttfb", gmt.model.ttfb)]
            /\ UNCHANGED events
    /\ UNCHANGED <<durs, monitor, lat, mem, gma, rc, heap, loads>>
    /\ UNCHANGED <<uploadVars, csvVars>>

GmtNext ==
    \/ GmtStart \/ GmtLatencies \/ GmtLatenciesDone \/ GmtPeakMem
    \/ GmtPeakMemDone \/ GmtDerived \/ GmtModelFlops

(***************************************************************************)
(* Python objects.  A config and its two lists are heap cells, so that an  *)
(* alias and a copy differ: heap[a] is the object at address a.            *)
(***************************************************************************)
ListObj(items) == [kind |-> "list", items |-> items]
ConfigObj(device, batch_size, extra_args, metrics) ==
    [kind |-> "config", device |-> device, batch_size |-> batch_size,
     extra_args |-> extra_args, metrics |-> metrics]

\* the value of the config at address a: its fields and its lists' items
ConfigValue(h, a) ==
    [device |-> h[a].device, batch_size |-> h[a].batch_size,
     extra_args |-> h[h[a].extra_args].items,
     metrics |-> h[h[a].metrics].items]

\* accuracy_model_config = model_config: no copy, the same object
Alias(h, a) == [heap |-> h, ref |-> a]

\* copy.deepcopy(model_config): a new config with new lists
Deepcopy(h, a) ==
    [heap |-> h \o <<ListObj(h[h[a].extra_args].items),
                     ListObj(h[h[a].metrics].items),
                     ConfigObj(h[a].device, h[a].batch_size,
                               Len(h) + 1, Len(h) + 2)>>,
     ref |-> Len(h) + 3]

\* list.copy(): a new list with the same items
ListCopy(h, a) == [heap |-> Append(h, ListObj(h[a].items)), ref |-> Len(h) + 1]

\* list.remove(x): the list without the first x
RemoveFirst(items, x) ==
    LET k == CHOOSE j \in 1..Len(items) :
                 items[j] = x /\ \A m \in 1..(j - 1) : items[m] # x
    IN SubSeq(items, 1, k - 1) \o SubSeq(items, k + 1, Len(items))

(***************************************************************************)
(* The instantiator (torchbenchmark/util/experiment/instantiator):         *)
(* load_model and load_model_isolated read the config they are given and   *)
(* either fail or hand back a model handle; a model loaded with            *)
(* "--accuracy" carries the outcome of the accuracy check.                 *)
(***************************************************************************)
AccuracyValues == {"pass", "fail_accuracy"}
LoadFails == "load_failed"
LoadOutcomes == AccuracyValues \cup {LoadFails}

LoadCall(fn, h, a) == [fn |-> fn, ref |-> a, config |-> ConfigValue(h, a)]

(***************************************************************************)
(* get_model_accuracy                                                      *)
(***************************************************************************)
GmaFrame(model_config, isolated) ==
    [pc |-> "start", model_config |-> model_config, isolated |-> isolated,
     accuracy_model_config |-> 0, accuracy |-> None, error |-> None]

\* deep-copy the config; put "--accuracy" first in the copy's extra_args
\* unless it is already there
GmaPrepare ==
    /\ gma.pc = "start"
    /\ LET c == Deepcopy(heap, gma.model_config)
           args == c.heap[c.heap[c.ref].extra_args].items
       IN /\ heap' =
                IF ~In("--accuracy", args)
                THEN [Append(c.heap, ListObj(<<"--accuracy">> \o args))
                         EXCEPT ![c.ref].extra_args = Len(c.heap) + 1]
                ELSE c.heap
          /\ gma' = [gma EXCEPT !.pc = "load", !.accuracy_model_config = c.ref]
    /\ UNCHANGED <<durs, events, monitor, lat, mem, gmt, rc, loads>>
    /\ UNCHANGED <<uploadVars, csvVars>>

\* load the model from the copy (isolated or in-process), read its accuracy,
\* del model, return
GmaLoad ==
    /\ gma.pc = "load"
    /\ loads' = Append(loads,
                       LoadCall(IF gma.isolated THEN "load_model_isolated"
                                                ELSE "load_model",
                                heap, gma.accuracy_model_config))
    /\ \E o \in LoadOutcomes :
         gma' = IF o = LoadFails
                THEN [gma EXCEPT !.pc = "raised", !.error = LoadFails]
                ELSE [gma EXCEPT !.pc = "return", !.accuracy = o]
    /\ UNCHANGED <<durs, events, monitor, lat, mem, gmt, rc, heap>>
    /\ UNCHANGED <<uploadVars, csvVars>>

GmaNext == GmaPrepare \/ GmaLoad

(***************************************************************************)
(* run_config                                                              *)
(***************************************************************************)
RcFrame(config, as_dict, dryrun) ==
    [pc |-> "start", config |-> config, as_dict |-> as_dict,
     dryrun |-> dryrun, metrics |-> EmptyMetrics, required_metrics |-> 0,
     accuracy |-> None, result |-> None, error |-> None]

\* dataclasses.asdict(metrics) if as_dict else metrics
Result(as_dict, metrics) ==
    [form |-> IF as_dict THEN "dict" ELSE "TorchBenchModelMetrics",
     fields |-> metrics]

\* print the banner, build the empty record; a dry run returns it at once,
\* otherwise required_metrics = config.metrics.copy(), accuracy = None
RcStart ==
    /\ rc.pc = "start"
    /\ IF rc.dryrun
       THEN /\ events' = events \o <<Ev("print Running config", 0),
                                     Ev("print [skip_by_dryrun]", 0)>>
            /\ rc' = [rc EXCEPT !.pc = "return", !.metrics = EmptyMetrics,
                                !.result = Result(rc.as_dict, EmptyMetrics)]
            /\ UNCHANGED heap
       ELSE LET c == ListCopy(heap, heap[rc.config].metrics) IN
            /\ events' = Append(events, Ev("print Running config", 0))
            /\ heap' = c.heap
            /\ rc' = [rc EXCEPT !.pc = "accuracy", !.metrics = EmptyMetrics,
                                !.required_metrics = c.ref,
                                !.accuracy = None]
    /\ UNCHANGED <<durs, monitor, lat, mem, gmt, gma, loads>>
    /\ UNCHANGED <<uploadVars, csvVars>>

\* if "accuracy" in required_metrics: call get_model_accuracy(config)
RcAccuracy ==
    /\ rc.pc = "accuracy"
    /\ IF In("accuracy", heap[rc.required_metrics].items)
       THEN /\ gma' = GmaFrame(rc.config, TRUE)
            /\ rc' = [rc EXCEPT !.pc = "accuracy_wait"]
       ELSE /\ rc' = [rc EXCEPT !.pc = "load"]
            /\ UNCHANGED gma
    /\ UNCHANGED <<durs, events, monitor, lat, mem, gmt, heap, loads>>
    /\ UNCHANGED <<uploadVars, csvVars>>

\* accuracy = <what get_model_accuracy returned>;
\* required_metrics.remove("accuracy")
RcAccuracyDone ==
    /\ rc.pc = "accuracy_wait"
    /\ gma.pc \in {"return", "raised"}
    /\ IF gma.pc = "raised"
       THEN /\ rc' = [rc EXCEPT !.pc = "raised", !.error = gma.error]
            /\ UNCHANGED heap
       ELSE /\ rc' = [rc EXCEPT !.pc = "load", !.accuracy = gma.accuracy]
            /\ heap' = [heap EXCEPT ![rc.required_metrics].items =
                                        RemoveFirst(@, "accuracy")]
    /\ gma' = IdleFrame
    /\ UNCHANGED <<durs, events, monitor, lat, mem, gmt, loads>>
    /\ UNCHANGED <<uploadVars, csvVars>>

\* if required_metrics: load the model isolated and call
\* get_model_test_metrics(model_task, required_metrics=required_metrics)
RcLoad ==
    /\ rc.pc = "load"
    /\ IF heap[rc.required_metrics].items # <<>>
       THEN /\ loads' = Append(loads,
                               LoadCall("load_model_isolated", heap, rc.config))
            /\ \E ok \in BOOLEAN :
                 IF ok
                 THEN /\ gmt' = GmtFrame(Handle("ModelTask",
                                                heap[rc.config].device,
                                                heap[rc.config].batch_size),
                                         heap[rc.required_metrics].items,
                                         FALSE, WARMUP_ROUNDS, BENCHMARK_ITERS)
                      /\ rc' = [rc EXCEPT !.pc = "metrics_wait"]
                 ELSE /\ rc' = [rc EXCEPT !.pc = "raised", !.error = LoadFails]
                      /\ UNCHANGED gmt
       ELSE /\ rc' = [rc EXCEPT !.pc = "merge"]
            /\ UNCHANGED <<gmt, loads>>
    /\ UNCHANGED <<durs, events, monitor, lat, mem, gma, heap>>
    /\ UNCHANGED <<uploadVars, csvVars>>

\* metrics = <what get_model_test_metrics returned>
RcMetricsDone ==
    /\ rc.pc = "metrics_wait"
    /\ gmt.pc \in {"return", "raised"}
    /\ rc' = IF gmt.pc = "raised"
             THEN [rc EXCEPT !.pc = "raised", !.error = gmt.error]
             ELSE [rc EXCEPT !.pc = "merge", !.metrics = gmt.metrics]
    /\ gmt' = IdleFrame
    /\ UNCHANGED <<durs, events, monitor, lat, mem, gma, heap, loads>>
    /\ UNCHANGED <<uploadVars, csvVars>>

\* if "accuracy" in required_metrics: metrics.accuracy = accuracy;
\* print "[done]"; return
RcMerge ==
    /\ rc.pc = "merge"
    /\ LET m == IF In("accuracy", heap[rc.required_metrics].items)
                THEN [rc.metrics EXCEPT !.accuracy = rc.accuracy]
                ELSE rc.metrics
       IN rc' = [rc EXCEPT !.pc = "return", !.metrics = m,
                           !.result = Result(rc.as_dict, m)]
    /\ events' = Append(events, Ev("print [done]", 0))
    /\ UNCHANGED <<durs, monitor, lat, mem, gmt, gma, heap, loads>>
    /\ UNCHANGED <<uploadVars, csvVars>>

RcNext ==
    \/ RcStart \/ RcAccuracy \/ RcAccuracyDone \/ RcLoad \/ RcMetricsDone
    \/ RcMerge

(***************************************************************************)
(* Strings that are searched or joined are sequences of characters.        *)
(***************************************************************************)
Slash == <<"/">>

\* a / b / c ... : the pieces joined by "/"
RECURSIVE JoinPath(_)
JoinPath(pieces) ==
    IF Len(pieces) = 1 THEN pieces[1]
    ELSE (pieces[1] \o Slash) \o JoinPath(Tail(pieces))

\* the last component of a path
RECURSIVE Basename(_)
Basename(path) ==
    IF \E k \in 1..Len(path) : path[k] = "/"
    THEN Basename(Tail(path))
    ELSE path

(***************************************************************************)
(* re: a compiled pattern is a sequence of atoms, each a literal character *)
(* or "." (any character), possibly starred.                               *)
(***************************************************************************)
Atom(c, star) == [c |-> c, star |-> star]
AtomTakes(atom, ch) == atom.c = "." \/ atom.c = ch

\* whether some prefix of text is matched by the whole pattern
RECURSIVE MatchHere(_, _)
MatchHere(pattern, text) ==
    IF pattern = <<>> THEN TRUE
    ELSE IF pattern[1].star
         THEN \/ (text # <<>> /\ AtomTakes(pattern[1], text[1])
                     /\ MatchHere(pattern, Tail(text)))
              \/ MatchHere(Tail(pattern), text)
         ELSE /\ text # <<>>
              /\ AtomTakes(pattern[1], text[1])
              /\ MatchHere(Tail(pattern), Tail(text))

\* filename_regex.search(file_name): a match starting anywhere
ReSearch(pattern, text) ==
    \E k \in 1..(Len(text) + 1) :
        MatchHere(pattern, SubSeq(text, k, Len(text)))

\* filename_regex.match(file_name): a match starting at the first character
ReMatch(pattern, text) == MatchHere(pattern, text)

(***************************************************************************)
(* upload_s3_csv.py                                                        *)
(***************************************************************************)
\* [file_name for file_name in os.listdir(file_path)
\*            if filename_regex.match(file_name)]
GetFilesToUpload(listdir, match_filename) ==
    SelectSeq(listdir, LAMBDA file_name : ReMatch(match_filename, file_name))

\* S3Client(bucket, s3_object).upload_file(prefix, file_path): the object key
\* is <s3_object>/<prefix>/<file name>
S3ObjectKey(s3_object, prefix, file_path) ==
    JoinPath(<<s3_object, prefix, Basename(file_path)>>)

\* upload_s3: the prefix and the transfer call it makes
UploadS3Key(s3_object, ub_name, workflow_run_id, workflow_run_attempt, file_path) ==
    LET prefix == JoinPath(<<ub_name, workflow_run_id, workflow_run_attempt>>)
    IN S3ObjectKey(s3_object, prefix, file_path)

UpFrame(upload_path, listdir, match_filename, s3_prefix, userbenchmark, workflow_run_id, workflow_run_attempt) ==
    [pc |-> "start", upload_path |-> upload_path, listdir |-> listdir,
     match_filename |-> match_filename, s3_prefix |-> s3_prefix,
     userbenchmark |-> userbenchmark, workflow_run_id |-> workflow_run_id,
     workflow_run_attempt |-> workflow_run_attempt,
     files_to_upload |-> <<>>, i |-> 0]

\* files_to_upload = _get_files_to_upload(args.upload_path, args.match_filename)
UpSelect ==
    /\ up.pc = "start"
    /\ up' = [up EXCEPT !.pc = "loop", !.i = 1,
                        !.files_to_upload =
                            GetFilesToUpload(up.listdir, up.match_filename)]
    /\ UNCHANGED <<s3, measureVars, csvVars>>

\* one iteration of the loop: upload_s3(...) for the next file; a failed
\* transfer raises out of the script
UpUpload ==
    /\ up.pc = "loop"
    /\ up.i <= Len(up.files_to_upload)
    /\ LET file_path == JoinPath(<<up.upload_path, up.files_to_upload[up.i]>>)
           key == UploadS3Key(up.s3_prefix, up.userbenchmark,
                              up.workflow_run_id, up.workflow_run_attempt,
                              file_path)
       IN \E ok \in BOOLEAN :
            /\ s3' = Append(s3, [key |-> key, ok |-> ok])
            /\ up' = IF ok THEN [up EXCEPT !.i = @ + 1]
                           ELSE [up EXCEPT !.pc = "raised"]
    /\ UNCHANGED <<measureVars, csvVars>>

\* the loop is exhausted: the script ends
UpExit ==
    /\ up.pc = "loop"
    /\ up.i > Len(up.files_to_upload)
    /\ up' = [up EXCEPT !.pc = "exit"]
    /\ UNCHANGED <<s3, measureVars, csvVars>>

UpNext == UpSelect \/ UpUpload \/ UpExit

(***************************************************************************)
(* userbenchmark/torchao/upload.py                                         *)
(***************************************************************************)
\* sub in s
Contains(s, sub) ==
    \E k \in 0..(Len(s) - Len(sub)) : SubSeq(s, k + 1, k + Len(sub)) = sub

TimmModels == <<"t", "i", "m", "m", "_", "m", "o", "d", "e", "l", "s">>
Timm == <<"t", "i", "m", "m">>
Huggingface == <<"h", "u", "g", "g", "i", "n", "g", "f", "a", "c", "e">>
Torchbench == <<"t", "o", "r", "c", "h", "b", "e", "n", "c", "h">>

UnknownModelSet == "RuntimeError"

\* _get_model_set looking for "timm" where the code looks for "timm_models"
GetModelSetTimm(filename) ==
    IF Contains(filename, Timm) THEN "timm"
    ELSE IF Contains(filename, Huggingface) THEN "huggingface"
    ELSE IF Contains(filename, Torchbench) THEN "torchbench"
    ELSE UnknownModelSet

\* _get_model_set: the first of the three tests that succeeds decides
GetModelSet(filename) ==
    IF Contains(filename, TimmModels) THEN "timm"
    ELSE IF Contains(filename, Huggingface) THEN "huggingface"
    ELSE IF Contains(filename, Torchbench) THEN "torchbench"
    ELSE UnknownModelSet

\* a direct call of _get_model_set
MsCall ==
    /\ ms.pc = "start"
    /\ ms' = LET r == GetModelSet(ms.filename) IN
             IF r = UnknownModelSet
             THEN [ms EXCEPT !.pc = "raised", !.error = r]
             ELSE [ms EXCEPT !.pc = "return", !.result = r]
    /\ UNCHANGED <<pcp, fs, measureVars, uploadVars>>

\* os.path.splitext(name)[0]: the name without its last extension
Stem(name) ==
    LET dots == {k \in 2..Len(name) : name[k] = "."} IN
    IF dots = {} THEN name
    ELSE SubSeq(name, 1, (CHOOSE k \in dots : \A d \in dots : d <= k) - 1)

\* the nine metadata columns, in the order row.update() inserts them
MetadataColumns ==
    <<"workflow_id", "run_attempt", "test_name", "runner", "job_id",
      "filename", "head_repo", "head_branch", "head_sha">>

\* (test_name is the f-string's three pieces)
Metadata(path, env) ==
    [workflow_id |-> env.WORKFLOW_RUN_ID,
     run_attempt |-> env.WORKFLOW_RUN_ATTEMPT,
     test_name |-> <<"torchao_", GetModelSet(path), "_perf">>,
     runner |-> "gcp_a100", job_id |-> "0",
     filename |-> Stem(Basename(path)),
     head_repo |-> "pytorch/ao", head_branch |-> "main",
     head_sha |-> "torchao.__version__"]

\* a row is an ordered dict: a sequence of <<column, value>>
Keys(row) == [k \in 1..Len(row) |-> row[k][1]]
HasKey(row, key) == \E k \in 1..Len(row) : row[k][1] = key

\* row[key] = value: in place when the key exists, else appended
SetItem(row, key, value) ==
    IF HasKey(row, key)
    THEN [k \in 1..Len(row) |->
             IF row[k][1] = key THEN <<key, value>> ELSE row[k]]
    ELSE Append(row, <<key, value>>)

RECURSIVE Update(_, _, _)
Update(row, keys, values) ==
    IF keys = <<>> THEN row
    ELSE Update(SetItem(row, keys[1], values[keys[1]]), Tail(keys), values)

\* csv.DictReader: one dict per data line, keyed by the header line
ReadRows(file) ==
    [r \in 1..Len(file.rows) |->
        [c \in 1..Len(file.header) |-> <<file.header[c], file.rows[r][c]>>]]

\* the rows decorated with the metadata (perf_stats)
Decorated(file, path, env) ==
    LET rows == ReadRows(file) IN
    [r \in 1..Len(rows) |-> Update(rows[r], MetadataColumns, Metadata(path, env))]

\* what the writer loop puts in the file: the first row's keys as header,
\* then every row's values
Written(perf_stats) ==
    [header |-> Keys(perf_stats[1]),
     rows |-> [r \in 1..Len(perf_stats) |->
                  [c \in 1..Len(perf_stats[r]) |-> perf_stats[r][c][2]]]]

\* open(path): the mode of the second open
WriteOpenMode == "r"
\* csv.DictWriter(csvfile): fieldnames is a required argument
DictWriterGivenFieldnames == FALSE

PcpFrame(output_files, env, original) ==
    [pc |-> "read", output_files |-> output_files, i |-> 1, env |-> env,
     perf_stats |-> <<>>, error |-> None,
     original |-> original]    \* history: the files as the caller left them

\* for path in output_files: the model set, the metadata, the rows read and
\* decorated
PcpRead ==
    /\ pcp.pc = "read"
    /\ pcp.i <= Len(pcp.output_files)
    /\ LET path == pcp.output_files[pcp.i] IN
         pcp' = IF GetModelSet(path) = UnknownModelSet
                THEN [pcp EXCEPT !.pc = "raised", !.error = UnknownModelSet]
                ELSE [pcp EXCEPT !.pc = "write",
                                 !.perf_stats =
                                     Decorated(fs[path], path, pcp.env)]
    /\ UNCHANGED <<fs, ms, measureVars, uploadVars>>

\* the second open, the writer, the header and the rows
PcpWrite ==
    /\ pcp.pc = "write"
    /\ LET path == pcp.output_files[pcp.i] IN
         IF ~DictWriterGivenFieldnames
         THEN /\ pcp' = [pcp EXCEPT !.pc = "raised", !.error = "TypeError"]
              /\ UNCHANGED fs
         ELSE IF pcp.perf_stats = <<>>
         THEN /\ pcp' = [pcp EXCEPT !.pc = "read", !.i = @ + 1]
              /\ UNCHANGED fs
         ELSE IF WriteOpenMode = "r"
         THEN /\ pcp' = [pcp EXCEPT !.pc = "raised",
                                    !.error = "UnsupportedOperation"]
              /\ UNCHANGED fs
         ELSE /\ pcp' = [pcp EXCEPT !.pc = "read", !.i = @ + 1]
              /\ fs' = [fs EXCEPT ![path] = Written(pcp.perf_stats)]
    /\ UNCHANGED <<ms, measureVars, uploadVars>>

\* the list of paths is exhausted
PcpReturn ==
    /\ pcp.pc = "read"
    /\ pcp.i > Len(pcp.output_files)
    /\ pcp' = [pcp EXCEPT !.pc = "return"]
    /\ UNCHANGED <<fs, ms, measureVars, uploadVars>>

PcpNext == PcpRead \/ PcpWrite \/ PcpReturn

(***************************************************************************)
(* Idle values of the flows a specification does not run                   *)
(***************************************************************************)
EmptyHeap == <<>>

UploadIdle == up = IdleFrame /\ s3 = <<>>
CsvIdle == pcp = IdleFrame /\ fs = <<>> /\ ms = IdleFrame
MeasureIdle ==
    /\ durs = {} /\ events = <<>> /\ monitor = "none"
    /\ lat = IdleFrame /\ mem = IdleFrame /\ gmt = IdleFrame
    /\ gma = IdleFrame /\ rc = IdleFrame
    /\ heap = EmptyHeap /\ loads = <<>>

(***************************************************************************)
(* A direct call of get_latencies                                          *)
(***************************************************************************)
Devices == {"cuda", "cpu"}

InitLat ==
    /\ durs = Durations /\ events = <<>> /\ monitor = "none"
    /\ \E d \in Devices, w \in 0..MaxWarmup, n \in 0..MaxIter :
         lat = LatFrame(d, w, n)
    /\ mem = IdleFrame /\ gmt = IdleFrame /\ gma = IdleFrame /\ rc = IdleFrame
    /\ heap = EmptyHeap /\ loads = <<>>
    /\ UploadIdle /\ CsvIdle

SpecLat == InitLat /\ [][LatNext]_vars

(***************************************************************************)
(* A direct call of get_peak_memory                                        *)
(***************************************************************************)
MetricNames == {"latencies", "throughputs", "accuracy", "cpu_peak_mem",
                "gpu_peak_mem", "ttfb", "pt2_compilation_time",
                "pt2_graph_breaks", "model_flops"}

\* the lists of at most n metric names, in any order, repeats included
ListsUpTo(n) == UNION {[1..k -> MetricNames] : k \in 0..n}

InitMem ==
    /\ durs = Durations /\ events = <<>> /\ monitor = "none"
    /\ \E d \in Devices, n \in 0..MaxIter, x \in BOOLEAN,
          needed \in ListsUpTo(MaxRequested) :
         mem = MemFrame(d, n, x, needed)
    /\ lat = IdleFrame /\ gmt = IdleFrame /\ gma = IdleFrame /\ rc = IdleFrame
    /\ heap = EmptyHeap /\ loads = <<>>
    /\ UploadIdle /\ CsvIdle

SpecMem == InitMem /\ [][MemNext]_vars

(***************************************************************************)
(* A direct call of get_model_test_metrics                                 *)
(***************************************************************************)
Handles ==
    {Handle("BenchmarkModel", "cuda", 2), Handle("ModelTask", "cpu", 1),
     Handle("str", "cpu", 1)}

InitMetrics ==
    /\ durs = Durations /\ events = <<>> /\ monitor = "none"
    /\ \E m \in Handles, req \in ListsUpTo(MaxRequested),
          w \in {0, MaxWarmup}, n \in {0, MaxIter} :
         gmt = GmtFrame(m, req, FALSE, w, n)   \* export_metrics_file=False
    /\ lat = IdleFrame /\ mem = IdleFrame /\ gma = IdleFrame /\ rc = IdleFrame
    /\ heap = EmptyHeap /\ loads = <<>>
    /\ UploadIdle /\ CsvIdle

SpecMetrics == InitMetrics /\ [][GmtNext \/ LatNext \/ MemNext]_vars

(***************************************************************************)
(* A call of run_config, or a direct call of get_model_accuracy, on a      *)
(* config the caller owns.                                                 *)
(***************************************************************************)
FlagNames == {"--accuracy", "--precision"}
ArgLists == UNION {[1..k -> FlagNames] : k \in 0..MaxArgs}

RunMetricNames == {"accuracy", "latencies", "cpu_peak_mem", "model_flops"}
RunMetricLists == UNION {[1..k -> RunMetricNames] : k \in 0..MaxRequested}

\* the caller's objects: the two lists, then the config that holds them
CallerHeap(device, args, metrics) ==
    <<ListObj(args), ListObj(metrics), ConfigObj(device, 1, 1, 2)>>

\* the address of the config the caller passed
CallerConfig == IF rc.pc = "idle" THEN gma.model_config ELSE rc.config

InitRun ==
    /\ durs = {Threshold} /\ events = <<>> /\ monitor = "none"
    /\ \E args \in ArgLists, metrics \in RunMetricLists :
         heap = CallerHeap("cuda", args, metrics)
    /\ \/ /\ \E as_dict \in BOOLEAN, dryrun \in BOOLEAN :
               rc = RcFrame(Len(heap), as_dict, dryrun)
          /\ gma = IdleFrame
       \/ /\ \E isolated \in BOOLEAN : gma = GmaFrame(Len(heap), isolated)
          /\ rc = IdleFrame
    /\ lat = IdleFrame /\ mem = IdleFrame /\ gmt = IdleFrame
    /\ loads = <<>>
    /\ UploadIdle /\ CsvIdle

SpecRun ==
    InitRun /\ [][RcNext \/ GmaNext \/ GmtNext \/ LatNext \/ MemNext]_vars

(***************************************************************************)
(* A run of the upload CLI                                                 *)
(***************************************************************************)
FooJson == <<"f", "o", "o", ".", "j", "s", "o", "n">>
BarJson == <<"b", "a", "r", ".", "j", "s", "o", "n">>
BazTxt == <<"b", "a", "z", ".", "t", "x", "t">>
Foo == <<"f", "o", "o">>
EntryNames == {FooJson, BarJson, BazTxt, Foo}

\* the listings of a directory: at most n distinct entries, in any order
Listings(n) ==
    {l \in UNION {[1..k -> EntryNames] : k \in 0..n} :
        \A a, b \in 1..Len(l) : a # b => l[a] # l[b]}

\* foo.*   ba.   .*o   .*txt   o   foo   x*   and the empty pattern
Patterns ==
    {<<Atom("f", FALSE), Atom("o", FALSE), Atom("o", FALSE), Atom(".", TRUE)>>,
     <<Atom("b", FALSE), Atom("a", FALSE), Atom(".", FALSE)>>,
     <<Atom(".", TRUE), Atom("o", FALSE)>>,
     <<Atom(".", TRUE), Atom("t", FALSE), Atom("x", FALSE), Atom("t", FALSE)>>,
     <<Atom("o", FALSE)>>,
     <<Atom("f", FALSE), Atom("o", FALSE), Atom("o", FALSE)>>,
     <<Atom("x", TRUE)>>,
     <<>>}

InitUpload ==
    /\ \E l \in Listings(MaxFiles), p \in Patterns,
          attempt \in {<<"1">>, <<"2">>} :
         up = UpFrame(<<"o", "u", "t">>, l, p, <<"m", "y", "p", "r", "e", "f", "i", "x">>, <<"m", "y", "b", "e", "n", "c", "h">>, <<"1", "2", "3">>, attempt)
    /\ s3 = <<>>
    /\ MeasureIdle /\ CsvIdle

SpecUpload == InitUpload /\ [][UpNext]_vars

(***************************************************************************)
(* A direct call of _get_model_set                                         *)
(***************************************************************************)
Fragments == {Timm, <<"_", "m", "o", "d", "e", "l", "s">>, Huggingface, Torchbench, <<"x">>, <<".", "c", "s", "v">>}

RECURSIVE Concat(_)
Concat(pieces) ==
    IF pieces = <<>> THEN <<>> ELSE pieces[1] \o Concat(Tail(pieces))

\* the filenames made of at most n fragments
Filenames(n) ==
    {Concat(f) : f \in UNION {[1..k -> Fragments] : k \in 0..n}}

InitModelSet ==
    /\ \E f \in Filenames(MaxFrags) :
         ms = [pc |-> "start", filename |-> f, result |-> None, error |-> None]
    /\ pcp = IdleFrame /\ fs = <<>>
    /\ MeasureIdle /\ UploadIdle

SpecModelSet == InitModelSet /\ [][MsCall]_vars

(***************************************************************************)
(* A call of post_ci_process                                               *)
(***************************************************************************)
CsvPaths ==
    {<<"o", "u", "t", "/", "t", "o", "r", "c", "h", "b", "e", "n", "c", "h", ".", "c", "s", "v">>,
     <<"o", "u", "t", "/", "t", "i", "m", "m", "_", "m", "o", "d", "e", "l", "s", ".", "c", "s", "v">>,
     <<"o", "u", "t", "/", "h", "u", "g", "g", "i", "n", "g", "f", "a", "c", "e", ".", "c", "s", "v">>,
     <<"o", "u", "t", "/", "t", "i", "m", "m", ".", "c", "s", "v">>}

PathLists(n) ==
    {l \in UNION {[1..k -> CsvPaths] : k \in 0..n} :
        \A a, b \in 1..Len(l) : a # b => l[a] # l[b]}

Headers == {<<"name", "speedup">>, <<"name", "filename">>}

\* the text of a cell: a run of "v" whose length tells the cells apart
CellText(r, c, width) == [n \in 1..((r - 1) * width + c) |-> "v"]

\* a CSV file with the given header and k data rows
CsvFile(header, k) ==
    [header |-> header,
     rows |-> [r \in 1..k |->
                  [c \in 1..Len(header) |-> CellText(r, c, Len(header))]]]

Environments ==
    {[WORKFLOW_RUN_ID |-> "0", WORKFLOW_RUN_ATTEMPT |-> "0"],
     [WORKFLOW_RUN_ID |-> "77", WORKFLOW_RUN_ATTEMPT |-> "2"]}

InitCsv ==
    /\ \E h \in Headers, k \in 0..MaxRows :
         fs = [p \in CsvPaths |-> CsvFile(h, k)]
    /\ \E l \in PathLists(MaxPaths), env \in Environments :
         pcp = PcpFrame(l, env, fs)
    /\ ms = IdleFrame
    /\ MeasureIdle /\ UploadIdle

SpecCsv == InitCsv /\ [][PcpNext]_vars

(***************************************************************************)
(* Properties                                                              *)
(***************************************************************************)
FuncEvents(log) == SelectSeq(log, LAMBDA e : e.ev = "func")
RaiseEvents(log) == SelectSeq(log, LAMBDA e : e.ev = "raise")
IndexOfEvent(name) == CHOOSE k \in 1..Len(events) : events[k].ev = name

\* C5: when get_latencies(func, device, w, n) returns, func has been invoked
\* exactly w+n times without raising, no latency was recorded during warm-up,
\* and the result has exactly n entries, entry i being the duration in
\* milliseconds of invocation w+i.
C5_LatenciesCountAndOrder ==
    /\ lat.pc = "warmup" => lat.result_summary = <<>>
    /\ lat.pc = "return" =>
         LET calls == FuncEvents(events) IN
           /\ RaiseEvents(events) = <<>>
           /\ Len(calls) = lat.nwarmup + lat.num_iter
           /\ Len(lat.result_summary) = lat.num_iter
           /\ \A i \in 1..lat.num_iter :
                lat.result_summary[i] = <<calls[lat.nwarmup + i].dt, 1000000>>
           /\ (lat.result_summary = <<>>) <=> (lat.num_iter = 0)

C5_Witness ==
    /\ lat.pc = "return" /\ lat.device = "cuda"
    /\ lat.nwarmup >= 1 /\ lat.num_iter >= 2
    /\ lat.result_summary[1] # lat.result_summary[2]

\* C2: whenever get_peak_memory has exited, by returning or by an error
\* that propagates, the background monitor is not left running.
C2_MonitorStoppedOnEveryExit ==
    mem.pc \in {"return", "raised"} => monitor # "running"

\* C6: once the monitor has been stopped, exactly one invocation (the probe)
\* precedes start_monitor, and the number of invocations between
\* start_monitor and stop_monitor is 15 if the probe took strictly less than
\* 15 ms and 2 otherwise, whatever num_iter the caller passed.
C6_ProbeSelectsIterations ==
    monitor = "stopped" =>
        LET a == IndexOfEvent("start_monitor")
            b == IndexOfEvent("stop_monitor")
            before == FuncEvents(SubSeq(events, 1, a - 1))
            between == FuncEvents(SubSeq(events, a + 1, b - 1))
        IN /\ a < b
           /\ Len(before) = 1
           /\ Len(between) = IF before[1].dt < 15 * 1000000 THEN 15 ELSE 2

C6_Witness ==
    /\ monitor = "stopped" /\ mem.pc = "return"
    /\ mem.continue_num_iter = BENCHMARK_ITERS
    /\ FuncEvents(events)[1].dt = 15 * 1000000
    /\ Len(FuncEvents(events)) = 3

Req(name) == In(name, gmt.required_metrics)

\* C3 as stated: in the record get_model_test_metrics returns, every field
\* whose metric name was not requested still holds its default value ([] for
\* latencies and throughputs, None for the others).
C3_UnrequestedFieldsDefault ==
    gmt.pc = "return" =>
        \A f \in DOMAIN EmptyMetrics :
            ~Req(f) => gmt.metrics[f] = EmptyMetrics[f]

\* C3 as amended: every field whose metric name was not requested holds its
\* default value, except latencies, which holds the num_iter sampled
\* latencies when throughputs was requested.
C3_UnrequestedFieldsDefaultButLatencies ==
    gmt.pc = "return" =>
        /\ \A f \in DOMAIN EmptyMetrics :
              (~Req(f) /\ ~(f = "latencies" /\ Req("throughputs")))
                  => gmt.metrics[f] = EmptyMetrics[f]
        /\ (Req("throughputs") /\ ~Req("latencies"))
              => Len(gmt.metrics.latencies) = gmt.num_iter

C3_Witness ==
    /\ gmt.pc = "return"
    /\ gmt.required_metrics = <<"throughputs", "cpu_peak_mem">>
    /\ gmt.metrics.latencies # <<>>
    /\ gmt.metrics.cpu_peak_mem # None
    /\ gmt.metrics.gpu_peak_mem = None

ThroughputOf(batch_size, latency) ==
    <<batch_size * 1000 * latency[2], latency[1]>>

ThroughputsMatchLatencies ==
    /\ Len(gmt.metrics.throughputs) = Len(gmt.metrics.latencies)
    /\ \A i \in 1..Len(gmt.metrics.latencies) :
          /\ gmt.metrics.latencies[i][1] # 0
          /\ gmt.metrics.throughputs[i]
                = ThroughputOf(gmt.model.batch_size, gmt.metrics.latencies[i])

\* C4 as stated: in every returned record for which latencies or throughputs
\* was requested, throughputs is as long as latencies and throughputs[i] is
\* batch_size * 1000 / latencies[i].
C4_ThroughputsWheneverEitherRequested ==
    (gmt.pc = "return" /\ (Req("latencies") \/ Req("throughputs")))
        => ThroughputsMatchLatencies

\* C4 as amended: in every returned record for which throughputs was
\* requested, throughputs is as long as latencies and throughputs[i] is
\* batch_size * 1000 / latencies[i]; when only latencies was requested,
\* throughputs stays empty.
C4_ThroughputsWhenRequested ==
    /\ (gmt.pc = "return" /\ Req("throughputs")) => ThroughputsMatchLatencies
    /\ (gmt.pc = "return" /\ ~Req("throughputs"))
          => gmt.metrics.throughputs = <<>>

C4_Witness ==
    /\ gmt.pc = "return" /\ Req("throughputs") /\ ~Req("latencies")
    /\ gmt.model.batch_size = 2
    /\ Len(gmt.metrics.throughputs) = 2
    /\ gmt.metrics.throughputs[1] # gmt.metrics.throughputs[2]

Caller == ConfigValue(heap, CallerConfig)
Count(x, list) == Cardinality({k \in 1..Len(list) : list[k] = x})

\* C1: when run_config returns from a run that is not a dry run on a config
\* whose metrics contain "accuracy", the accuracy field of the result equals
\* the value get_model_accuracy returned.
C1_AccuracyMergedIntoResult ==
    (rc.pc = "return" /\ ~rc.dryrun /\ In("accuracy", Caller.metrics))
        => /\ rc.accuracy \in AccuracyValues
           /\ rc.result.fields.accuracy = rc.accuracy

\* the config a get_model_accuracy call handed to the loader is a copy that
\* holds the caller's extra_args with "--accuracy" put first unless present
FlagOnlyOnCopy ==
    \A k \in 1..Len(loads) :
        IF loads[k].ref = CallerConfig
        THEN loads[k].config = Caller
        ELSE /\ loads[k].config.extra_args =
                    IF In("--accuracy", Caller.extra_args)
                    THEN Caller.extra_args
                    ELSE <<"--accuracy">> \o Caller.extra_args
             /\ Count("--accuracy", Caller.extra_args) <= 1
                    => Count("--accuracy", loads[k].config.extra_args) = 1

\* C10: no step of get_model_accuracy or run_config changes the caller's
\* config object (its extra_args and metrics lists keep their items), and
\* "--accuracy" is added to the copy only, and only when absent, so the copy
\* holds it exactly once when the original held it at most once.
C10_CallerConfigUnchanged ==
    /\ [][/\ heap'[CallerConfig] = heap[CallerConfig]
          /\ ConfigValue(heap', CallerConfig) = ConfigValue(heap, CallerConfig)
         ]_vars
    /\ []FlagOnlyOnCopy

C10_Witness ==
    /\ rc.pc = "return" /\ ~rc.dryrun
    /\ Len(loads) = 2
    /\ loads[1].ref # CallerConfig
    /\ loads[1].config.extra_args = <<"--accuracy", "--precision">>
    /\ Caller.extra_args = <<"--precision">>
    /\ Caller.metrics = <<"latencies", "accuracy">>
    /\ heap[rc.required_metrics].items = <<"latencies">>

\* The pattern read as an automaton: position j stands for "atoms 1..j are
\* done"; a starred atom may be skipped, and may take any number of
\* characters.
Skips(pattern, S) ==
    {j \in 0..Len(pattern) :
        \E i \in S : i <= j /\ \A m \in (i + 1)..j : pattern[m].star}

Consume(pattern, S, ch) ==
    Skips(pattern,
          {j \in 1..Len(pattern) :
              /\ pattern[j].c = "." \/ pattern[j].c = ch
              /\ IF pattern[j].star THEN j \in S ELSE (j - 1) \in S})

RECURSIVE PositionsAfter(_, _)
PositionsAfter(pattern, text) ==
    IF text = <<>> THEN Skips(pattern, {0})
    ELSE Consume(pattern,
                 PositionsAfter(pattern, SubSeq(text, 1, Len(text) - 1)),
                 text[Len(text)])

MatchesFromStart(pattern, name) ==
    \E k \in 0..Len(name) :
        Len(pattern) \in PositionsAfter(pattern, SubSeq(name, 1, k))

\* the key {s3_object}/{ub_name}/{workflow_run_id}/{workflow_run_attempt}/{file_name}
ExpectedKey(file_name) ==
    up.s3_prefix \o <<"/">> \o up.userbenchmark \o <<"/">>
        \o up.workflow_run_id \o <<"/">> \o up.workflow_run_attempt
        \o <<"/">> \o file_name

ExpectedFiles ==
    SelectSeq(up.listdir,
              LAMBDA name : MatchesFromStart(up.match_filename, name))

UploadLogAsExpected ==
    /\ Len(s3) <= Len(ExpectedFiles)
    /\ \A k \in 1..Len(s3) : s3[k].key = ExpectedKey(ExpectedFiles[k])
    /\ \A k \in 1..(Len(s3) - 1) : s3[k].ok
    /\ up.pc = "exit" =>
          Len(s3) = Len(ExpectedFiles) /\ \A k \in 1..Len(s3) : s3[k].ok
    /\ up.pc = "raised" => s3 # <<>> /\ ~s3[Len(s3)].ok
    /\ (s3 # <<>> /\ ~s3[Len(s3)].ok) => up.pc = "raised"

\* C7: the transfer calls made so far are, in listdir order, exactly the
\* first entries whose name matches the pattern from the start, one call
\* each under the key {s3_object}/{ub_name}/{run_id}/{run_attempt}/{name};
\* a run that ends normally has made the call for every such entry; a run
\* that a failed transfer ends has every earlier transfer done, and no
\* further call is ever made after the failure.
C7_OneTransferPerMatchedEntry ==
    /\ []UploadLogAsExpected
    /\ [][up.pc = "raised" => (s3' = s3 /\ up' = up)]_vars

C7_Witness ==
    /\ up.pc = "raised"
    /\ Len(up.listdir) = 4
    /\ Len(ExpectedFiles) = 3
    /\ Len(s3) = 2 /\ s3[1].ok /\ ~s3[2].ok

\* C8 as stated: _get_model_set returns "timm", "huggingface", "torchbench"
\* for every filename containing that substring, and raises exactly for the
\* filenames containing none of the three.
C8_ModelSetBySubstring ==
    ms.pc \in {"return", "raised"} =>
        /\ Contains(ms.filename, <<"t", "i", "m", "m">>) => ms.result = "timm"
        /\ Contains(ms.filename, Huggingface) => ms.result = "huggingface"
        /\ Contains(ms.filename, Torchbench) => ms.result = "torchbench"
        /\ ms.pc = "raised" <=>
              ~(\/ Contains(ms.filename, <<"t", "i", "m", "m">>)
                \/ Contains(ms.filename, Huggingface)
                \/ Contains(ms.filename, Torchbench))

HasTimmModels ==
    Contains(ms.filename,
             <<"t", "i", "m", "m", "_", "m", "o", "d", "e", "l", "s">>)
HasHuggingface == Contains(ms.filename, Huggingface)
HasTorchbench == Contains(ms.filename, Torchbench)

\* C8 as amended: _get_model_set returns "timm" for every filename
\* containing "timm_models", "huggingface" for every filename containing
\* "huggingface" but not "timm_models", "torchbench" for every filename
\* containing "torchbench" but neither of the other two, and raises exactly
\* for the filenames containing none of "timm_models", "huggingface",
\* "torchbench".
C8_ModelSetByFirstSubstring ==
    ms.pc \in {"return", "raised"} =>
        /\ HasTimmModels => ms.result = "timm"
        /\ (HasHuggingface /\ ~HasTimmModels) => ms.result = "huggingface"
        /\ (HasTorchbench /\ ~HasHuggingface /\ ~HasTimmModels)
              => ms.result = "torchbench"
        /\ ms.pc = "raised"
              <=> ~(HasTimmModels \/ HasHuggingface \/ HasTorchbench)
        /\ ms.pc = "raised" => ms.result = None

C8_Witness ==
    /\ ms.pc = "return" /\ ms.result = "timm"
    /\ HasTimmModels /\ HasHuggingface

ColumnsOf(file) == {file.header[c] : c \in 1..Len(file.header)}

\* the new file holds as many rows as the old one, every old column with its
\* old values, and the nine metadata columns
DecoratedFrom(old, new) ==
    /\ Len(new.rows) = Len(old.rows)
    /\ \A m \in 1..Len(MetadataColumns) : MetadataColumns[m] \in ColumnsOf(new)
    /\ \A c \in 1..Len(old.header) :
          \E d \in 1..Len(new.header) :
              /\ new.header[d] = old.header[c]
              /\ \A r \in 1..Len(old.rows) : new.rows[r][d] = old.rows[r][c]

\* C9: when post_ci_process is over, on paths of a recognized category whose
\* files hold at least one data row, it has returned (not failed) and every
\* file holds its rows decorated with the nine metadata columns.
C9_FilesRewrittenDecorated ==
    (/\ pcp.pc \in {"return", "raised"}
     /\ \A k \in 1..Len(pcp.output_files) :
           /\ GetModelSet(pcp.output_files[k]) # UnknownModelSet
           /\ pcp.original[pcp.output_files[k]].rows # <<>>)
        => /\ pcp.pc = "return"
           /\ \A k \in 1..Len(pcp.output_files) :
                 DecoratedFrom(pcp.original[pcp.output_files[k]],
                               fs[pcp.output_files[k]])
====
